---------------------------- MODULE Spec2Model ----------------------------
(***************************************************************************)
(* The parameter expression system of sherpa/models/parameter.py:          *)
(* Parameter objects (value, soft and hard limits, frozen flag, link) and  *)
(* the composite expressions built from them by the arithmetic operators.  *)
(*                                                                         *)
(* The heap `par` maps each leaf Parameter to its attributes, named as in  *)
(* the source (_val, _min, ...).  Python values are records tagged by k:   *)
(*   None, a plain number, a leaf Parameter (by name), or a                *)
(*   ConstantParameter / UnaryOpParameter / BinaryOpParameter term.        *)
(* Every setter is an operator from a heap to a result [h, err]: the heap  *)
(* it leaves behind and the exception it raised (NoErr when it returned),  *)
(* so that a setter that mutates before it raises is modelled as such.     *)
(* Values are integers: the floating-point values of the source are        *)
(* scaled down to the range -hugeval..hugeval.                             *)
(***************************************************************************)
EXTENDS Integers, Sequences, FiniteSets, TLC

VARIABLES par, last

vars == <<par, last>>

(***************************************************************************)
(* Bounds of the model.                                                    *)
(***************************************************************************)
\* magnitude of the default hard limits (FLT_MAX in the source)
hugeval == 2
\* depth at which a read of val gives up, as Python's recursion limit does
RecursionLimit == 12

Params == {"a", "b", "c"}

\* numbers a caller may pass: one beyond the hard limits on either side
Numbers == (0 - hugeval - 1) .. (hugeval + 1)

(***************************************************************************)
(* Python values.                                                          *)
(***************************************************************************)
None == [k |-> "none"]
Number(n) == [k |-> "number", v |-> n]
Bool(b) == [k |-> "bool", v |-> b]
Par(p) == [k |-> "par", p |-> p]

\* isinstance(x, Parameter)
IsParameter(x) == x.k \in {"par", "const", "un", "bin"}
\* isinstance(x, CompositeParameter)
IsComposite(x) == x.k \in {"const", "un", "bin"}

SherpaFloat(x) == x.v

ConstantParameter(value) == [k |-> "const", value |-> SherpaFloat(value)]

UnaryOpParameter(arg, op) == [k |-> "un", op |-> op, arg |-> arg]

wrapobj(obj) == IF IsParameter(obj) THEN obj ELSE ConstantParameter(obj)

BinaryOpParameter(lhs, rhs, op) ==
    [k |-> "bin", op |-> op, lhs |-> wrapobj(lhs), rhs |-> wrapobj(rhs)]

\* p OP rhs and lhs OP p, as built by the operator overloads
\* mutant: the forward operator with its operands exchanged
func_swapped(self, rhs, op) == BinaryOpParameter(rhs, self, op)

func(self, rhs, op) == BinaryOpParameter(self, rhs, op)
\* mutant: the reflected operator keeps self on the left
rfunc_swapped(self, lhs, op) == BinaryOpParameter(self, lhs, op)

rfunc(self, lhs, op) == BinaryOpParameter(lhs, self, op)

(***************************************************************************)
(* Exceptions.                                                             *)
(***************************************************************************)
NoErr == [kind |-> "none"]
ParameterErr(kind) == [kind |-> kind]
EdgeErr(fullname, what, bound) ==
    [kind |-> "edge", fullname |-> fullname, what |-> what, bound |-> bound]
RecursionError == [kind |-> "RecursionError"]
\* the call never returns
Hang == [kind |-> "hang"]

Ok(H) == [h |-> H, err |-> NoErr]
Raise(H, e) == [h |-> H, err |-> e]
Ret(v) == [v |-> v, err |-> NoErr]
RaiseV(e) == [v |-> 0, err |-> e]

(***************************************************************************)
(* Iteration over a parameter: a leaf yields itself, a composite yields    *)
(* its flattened parts.                                                    *)
(***************************************************************************)
\* mutant: the direct parts only, the parts of a composite part left out
_get_parts_shallow(self) ==
    CASE self.k = "un"  -> <<self.arg>>
      [] self.k = "bin" -> <<self.lhs, self.rhs>>
      [] OTHER          -> <<>>

\* mutant: a right-hand part equal to the left-hand part is left out
RECURSIVE _get_parts_unique(_)
_get_parts_unique(self) ==
    LET sub(p) == <<p>> \o (IF IsComposite(p) THEN _get_parts_unique(p) ELSE <<>>)
    IN  CASE self.k = "un"  -> sub(self.arg)
          [] self.k = "bin" -> sub(self.lhs) \o
                               (IF self.rhs = self.lhs THEN <<>> ELSE sub(self.rhs))
          [] OTHER          -> <<>>

RECURSIVE _get_parts(_)
_get_parts(self) ==
    LET sub(p) == <<p>> \o (IF IsComposite(p) THEN _get_parts(p) ELSE <<>>)
    IN  CASE self.k = "un"  -> sub(self.arg)
          [] self.k = "bin" -> sub(self.lhs) \o sub(self.rhs)
          [] OTHER          -> <<>>

iter(x) == IF IsComposite(x) THEN _get_parts(x) ELSE <<x>>

\* Python's `self in link`
\* mutant: identity with the link alone, the parts of a composite not walked
In_identity(self, link) == link = Par(self)

In(self, link) == \E i \in 1..Len(iter(link)) : iter(link)[i] = Par(self)

(***************************************************************************)
(* Reading val.                                                            *)
(***************************************************************************)
ApplyUn(op, x) ==
    CASE op = "-"   -> 0 - x
      [] op = "abs" -> IF x < 0 THEN 0 - x ELSE x

ApplyBin(op, x, y) ==
    CASE op = "+" -> x + y
      [] op = "-" -> x - y
      [] op = "*" -> x * y

RECURSIVE ValAt(_, _, _)
ValAt(H, x, fuel) ==
    IF fuel = 0 THEN RaiseV(RecursionError)
    ELSE CASE x.k = "const" -> Ret(x.value)
           [] x.k = "un" ->
                LET a == ValAt(H, x.arg, fuel - 1)
                IN  IF a.err # NoErr THEN a ELSE Ret(ApplyUn(x.op, a.v))
           [] x.k = "bin" ->
                LET l == ValAt(H, x.lhs, fuel - 1)
                IN  IF l.err # NoErr THEN l
                    ELSE LET r == ValAt(H, x.rhs, fuel - 1)
                         IN  IF r.err # NoErr THEN r
                             ELSE Ret(ApplyBin(x.op, l.v, r.v))
           [] x.k = "par" ->
                LET s == H[x.p]
                IN  IF s._link = None THEN Ret(s._val)
                    ELSE LET r == ValAt(H, s._link, fuel - 1)
                         IN  IF r.err # NoErr THEN r
                             ELSE IF r.v < s._min
                                  THEN RaiseV(EdgeErr(x.p, "minimum", s._min))
                             ELSE IF r.v > s._max
                                  THEN RaiseV(EdgeErr(x.p, "maximum", s._max))
                             ELSE r

\* mutant: the value of the link returned without the soft-limit check
_get_val_unchecked(H, p) ==
    IF H[p]._link = None THEN Ret(H[p]._val)
    ELSE ValAt(H, H[p]._link, RecursionLimit - 1)

_get_val(H, p) == ValAt(H, Par(p), RecursionLimit)

\* mutant: the stored flag, whether linked or not
_get_frozen_stored(H, p) == H[p]._frozen

_get_frozen(H, p) == IF H[p]._link # None THEN TRUE ELSE H[p]._frozen

(***************************************************************************)
(* The link setter.                                                        *)
(***************************************************************************)
\* x.link for any parameter object: the composites of the model are built
\* by the operators and never assigned a link of their own
link_of(H, x) == IF x.k = "par" THEN H[x.p]._link ELSE None

\* mutant: a walk that never reports a cycle
RECURSIVE LinkWalk_blind(_, _, _, _)
LinkWalk_blind(H, self, ll, n) ==
    IF ~IsParameter(ll) THEN [cycle |-> FALSE, hang |-> FALSE]
    ELSE IF n = 0 THEN [cycle |-> FALSE, hang |-> TRUE]
    ELSE [cycle |-> FALSE,
          hang  |-> LinkWalk_blind(H, self, link_of(H, ll), n - 1).hang]

\* the while loop of _set_link, n nodes at most before it is known to loop
RECURSIVE LinkWalk(_, _, _, _)
LinkWalk(H, self, ll, n) ==
    IF ~IsParameter(ll) THEN [cycle |-> FALSE, hang |-> FALSE]
    ELSE IF n = 0 THEN [cycle |-> FALSE, hang |-> TRUE]
    ELSE LET rest == LinkWalk(H, self, link_of(H, ll), n - 1)
         IN  [cycle |-> (ll = Par(self) \/ In(self, ll)) \/ rest.cycle,
              hang  |-> rest.hang]

\* link.link = None, on the long-cycle path
\* mutant: the link of the new target left in place
BreakLink_kept(H, link) == H

BreakLink(H, link) ==
    IF link.k = "par" THEN [H EXCEPT ![link.p]._link = None] ELSE H

\* mutant: the alwaysfrozen test made on the link target, not on self
_set_link_targetfrozen(H, self, link) ==
    IF link # None
    THEN IF link.k = "par" /\ H[link.p]._alwaysfrozen
         THEN Raise(H, ParameterErr("frozennolink"))
         ELSE IF ~IsParameter(link) THEN Raise(H, ParameterErr("notlink"))
         ELSE IF In(self, link) THEN Raise(H, ParameterErr("linkcycle"))
         ELSE LET w == LinkWalk(H, self, link, Cardinality(Params) + 1)
                  H1 == IF w.cycle /\ IsParameter(link)
                        THEN BreakLink(H, link) ELSE H
              IN  IF w.hang THEN Raise(H, Hang)
                  ELSE Ok([H1 EXCEPT ![self]._link = link])
    ELSE Ok([H EXCEPT ![self]._link = link])

_set_link(H, self, link) ==
    IF link # None
    THEN IF H[self]._alwaysfrozen THEN Raise(H, ParameterErr("frozennolink"))
         ELSE IF ~IsParameter(link) THEN Raise(H, ParameterErr("notlink"))
         ELSE IF In(self, link) THEN Raise(H, ParameterErr("linkcycle"))
         ELSE LET w == LinkWalk(H, self, link, Cardinality(Params) + 1)
                  H1 == IF w.cycle /\ IsParameter(link)
                        THEN BreakLink(H, link) ELSE H
              IN  IF w.hang THEN Raise(H, Hang)
                  ELSE Ok([H1 EXCEPT ![self]._link = link])
    ELSE Ok([H EXCEPT ![self]._link = link])

(***************************************************************************)
(* The value setters.                                                      *)
(***************************************************************************)
\* mutant: a value assignment that leaves the default value alone
_set_val_keepsdefault(H, self, val) ==
    IF IsParameter(val) THEN _set_link(H, self, val)
    ELSE LET H1 == _set_link(H, self, None).h
             v == SherpaFloat(val)
         IN  IF v < H1[self]._min
             THEN Raise(H1, EdgeErr(self, "minimum", H1[self]._min))
             ELSE IF v > H1[self]._max
             THEN Raise(H1, EdgeErr(self, "maximum", H1[self]._max))
             ELSE Ok([H1 EXCEPT ![self]._val = v])

\* mutant: a value assignment that leaves the link in place
_set_val_keepslink(H, self, val) ==
    IF IsParameter(val) THEN _set_link(H, self, val)
    ELSE LET v == SherpaFloat(val)
         IN  IF v < H[self]._min
             THEN Raise(H, EdgeErr(self, "minimum", H[self]._min))
             ELSE IF v > H[self]._max
             THEN Raise(H, EdgeErr(self, "maximum", H[self]._max))
             ELSE Ok([H EXCEPT ![self]._val = v, ![self]._default_val = v])

\* mutant: a parameter assigned to val stored as the link unvalidated
_set_val_linkunchecked(H, self, val) ==
    IF IsParameter(val) THEN Ok([H EXCEPT ![self]._link = val])
    ELSE LET H1 == _set_link(H, self, None).h
             v == SherpaFloat(val)
         IN  IF v < H1[self]._min
             THEN Raise(H1, EdgeErr(self, "minimum", H1[self]._min))
             ELSE IF v > H1[self]._max
             THEN Raise(H1, EdgeErr(self, "maximum", H1[self]._max))
             ELSE Ok([H1 EXCEPT ![self]._val = v, ![self]._default_val = v])

_set_val(H, self, val) ==
    IF IsParameter(val) THEN _set_link(H, self, val)
    ELSE LET H1 == _set_link(H, self, None).h
             v == SherpaFloat(val)
         IN  IF v < H1[self]._min
             THEN Raise(H1, EdgeErr(self, "minimum", H1[self]._min))
             ELSE IF v > H1[self]._max
             THEN Raise(H1, EdgeErr(self, "maximum", H1[self]._max))
             ELSE Ok([H1 EXCEPT ![self]._val = v, ![self]._default_val = v])

_set_default_val(H, self, default_val) ==
    IF IsParameter(default_val) THEN _set_link(H, self, default_val)
    ELSE LET H1 == _set_link(H, self, None).h
             v == SherpaFloat(default_val)
         IN  IF v < H1[self]._min
             THEN Raise(H1, EdgeErr(self, "minimum", H1[self]._min))
             ELSE IF v > H1[self]._max
             THEN Raise(H1, EdgeErr(self, "maximum", H1[self]._max))
             ELSE Ok([H1 EXCEPT ![self]._default_val = v])


(***************************************************************************)
(* The limit setters: min, max, default_min and default_max share          *)
(* _set_limit, which differs by the attribute name it stores into.         *)
(***************************************************************************)
\* mutant: the new limit stored without moving the value inside it
_set_limit_norepair(name, H, self, val) ==
    LET v == SherpaFloat(val)
        s == H[self]
    IN  IF v < s._hard_min
        THEN Raise(H, EdgeErr(self, "hard minimum", s._hard_min))
        ELSE IF v > s._hard_max
        THEN Raise(H, EdgeErr(self, "hard maximum", s._hard_max))
        ELSE Ok([H EXCEPT ![self][name] = v])

\* mutant: the hard limits tested for min and max only
_set_limit_nohard(name, H, self, val) ==
    LET v == SherpaFloat(val)
        s == H[self]
        store(h) == Ok([h EXCEPT ![self][name] = v])
    IN  IF name \in {"_min", "_max"} /\ v < s._hard_min
        THEN Raise(H, EdgeErr(self, "hard minimum", s._hard_min))
        ELSE IF name \in {"_min", "_max"} /\ v > s._hard_max
        THEN Raise(H, EdgeErr(self, "hard maximum", s._hard_max))
        ELSE IF s.initialized /\ name \in {"_min", "_max"}
        THEN LET cur == _get_val(H, self)
             IN  IF cur.err # NoErr THEN Raise(H, cur.err)
                 ELSE IF (name = "_min" /\ v > cur.v) \/ (name = "_max" /\ v < cur.v)
                 THEN LET r == _set_val(H, self, Number(v))
                      IN  IF r.err # NoErr THEN r ELSE store(r.h)
                 ELSE store(H)
        ELSE store(H)

\* mutant: the default limits repair the value as min and max do
_set_limit_repairsdefaults(name, H, self, val) ==
    LET v == SherpaFloat(val)
        s == H[self]
        store(h) == Ok([h EXCEPT ![self][name] = v])
    IN  IF v < s._hard_min
        THEN Raise(H, EdgeErr(self, "hard minimum", s._hard_min))
        ELSE IF v > s._hard_max
        THEN Raise(H, EdgeErr(self, "hard maximum", s._hard_max))
        ELSE IF s.initialized
        THEN LET cur == _get_val(H, self)
             IN  IF cur.err # NoErr THEN Raise(H, cur.err)
                 ELSE IF (name \in {"_min", "_default_min"} /\ v > cur.v)
                         \/ (name \in {"_max", "_default_max"} /\ v < cur.v)
                 THEN LET r == _set_val(H, self, Number(v))
                      IN  IF r.err # NoErr THEN r ELSE store(r.h)
                 ELSE store(H)
        ELSE store(H)

_set_limit(name, H, self, val) ==
    LET v == SherpaFloat(val)
        s == H[self]
        store(h) == Ok([h EXCEPT ![self][name] = v])
    IN  IF v < s._hard_min
        THEN Raise(H, EdgeErr(self, "hard minimum", s._hard_min))
        ELSE IF v > s._hard_max
        THEN Raise(H, EdgeErr(self, "hard maximum", s._hard_max))
        ELSE IF s.initialized /\ name \in {"_min", "_max"}
        THEN LET cur == _get_val(H, self)
             IN  IF cur.err # NoErr THEN Raise(H, cur.err)
                 ELSE IF (name = "_min" /\ v > cur.v) \/ (name = "_max" /\ v < cur.v)
                 THEN LET r == _set_val(H, self, Number(v))
                      IN  IF r.err # NoErr THEN r ELSE store(r.h)
                 ELSE store(H)
        ELSE store(H)

(***************************************************************************)
(* frozen, freeze, thaw, unlink.                                           *)
(***************************************************************************)
_set_frozen(H, self, val) ==
    IF H[self]._alwaysfrozen /\ ~val.v
    THEN Raise(H, ParameterErr("alwaysfrozen"))
    ELSE Ok([H EXCEPT ![self]._frozen = val.v])

freeze(H, self) == _set_frozen(H, self, Bool(TRUE))

\* mutant: thaw that leaves the stored flag as it is
thaw_noop(H, self) == Ok(H)

thaw(H, self) == _set_frozen(H, self, Bool(FALSE))

\* mutant: unlink that also clears the stored frozen flag
unlink_thawed(H, self) == Ok([H EXCEPT ![self]._link = None, ![self]._frozen = FALSE])

unlink(H, self) == _set_link(H, self, None)

(***************************************************************************)
(* default_val as read, and reset.                                         *)
(***************************************************************************)
RECURSIVE DefaultValAt(_, _, _)
DefaultValAt(H, x, fuel) ==
    IF fuel = 0 THEN RaiseV(RecursionError)
    ELSE IF IsComposite(x) THEN ValAt(H, x, fuel)
    ELSE IF H[x.p]._link # None THEN DefaultValAt(H, H[x.p]._link, fuel - 1)
    ELSE Ret(H[x.p]._default_val)

_get_default_val(H, p) == DefaultValAt(H, Par(p), RecursionLimit)

\* mutant: reset that restores the limits whether guessed or not
reset_limitsalways(H, self) ==
    LET s == H[self]
        H1 == [H EXCEPT ![self]._min = s._default_min,
                        ![self]._max = s._default_max,
                        ![self]._guessed = FALSE]
        d == _get_default_val(H1, self)
    IN  IF d.err # NoErr THEN Raise(H1, d.err)
        ELSE Ok([H1 EXCEPT ![self]._val = d.v])

reset(H, self) ==
    LET s == H[self]
        H1 == IF s._guessed
              THEN [H EXCEPT ![self]._min = s._default_min,
                             ![self]._max = s._default_max,
                             ![self]._guessed = FALSE]
              ELSE H
        d == _get_default_val(H1, self)
    IN  IF d.err # NoErr THEN Raise(H1, d.err)
        ELSE Ok([H1 EXCEPT ![self]._val = d.v])

(***************************************************************************)
(* set: the setters in the order of the source, stopping at the first one  *)
(* that raises.                                                            *)
(***************************************************************************)
NoArgs ==
    [val |-> None, min |-> None, max |-> None, frozen |-> None,
     default_val |-> None, default_min |-> None, default_max |-> None]

\* the i-th statement of set
SetStep(i, H, self, a) ==
    CASE i = 1 -> IF a.max # None /\ a.max.v > H[self]._max
                  THEN _set_limit("_max", H, self, a.max) ELSE Ok(H)
      [] i = 2 -> IF a.default_max # None /\ a.default_max.v > H[self]._default_max
                  THEN _set_limit("_default_max", H, self, a.default_max) ELSE Ok(H)
      [] i = 3 -> IF a.min # None /\ a.min.v < H[self]._min
                  THEN _set_limit("_min", H, self, a.min) ELSE Ok(H)
      [] i = 4 -> IF a.default_min # None /\ a.default_min.v < H[self]._default_min
                  THEN _set_limit("_default_min", H, self, a.default_min) ELSE Ok(H)
      [] i = 5 -> IF a.val # None THEN _set_val(H, self, a.val) ELSE Ok(H)
      [] i = 6 -> IF a.default_val # None
                  THEN _set_default_val(H, self, a.default_val) ELSE Ok(H)
      [] i = 7 -> IF a.min # None THEN _set_limit("_min", H, self, a.min) ELSE Ok(H)
      [] i = 8 -> IF a.max # None THEN _set_limit("_max", H, self, a.max) ELSE Ok(H)
      [] i = 9 -> IF a.default_min # None
                  THEN _set_limit("_default_min", H, self, a.default_min) ELSE Ok(H)
      [] i = 10 -> IF a.default_max # None
                   THEN _set_limit("_default_max", H, self, a.default_max) ELSE Ok(H)
      [] i = 11 -> IF a.frozen # None THEN _set_frozen(H, self, a.frozen) ELSE Ok(H)

\* the statements from the i-th on, stopping at the first that raises
RECURSIVE SetFrom(_, _, _, _)
SetAfter(i, r, self, a) ==
    IF r.err # NoErr THEN r ELSE SetFrom(i + 1, r.h, self, a)

SetFrom(i, H, self, a) ==
    IF i > 11 THEN Ok(H) ELSE SetAfter(i, SetStep(i, H, self, a), self, a)

\* mutant: set without the limits first widened to take the new value
set_nowiden(H, self, a) == SetFrom(5, H, self, a)

\* mutant: set with the frozen argument applied before the others
set_frozenfirst(H, self, a) == SetAfter(0, SetStep(11, H, self, a), self, a)

set(H, self, a) == SetFrom(1, H, self, a)

(***************************************************************************)
(* Construction.  The attributes are assigned through their properties,    *)
(* with the initialized flag still unset; a constructor that raises        *)
(* leaves no object.                                                       *)
(***************************************************************************)
Blank ==
    [_val |-> 0, _default_val |-> 0, _min |-> 0, _max |-> 0,
     _default_min |-> 0, _default_max |-> 0,
     _hard_min |-> 0, _hard_max |-> 0,
     _frozen |-> FALSE, _alwaysfrozen |-> FALSE,
     _link |-> None, _guessed |-> FALSE, initialized |-> FALSE]

CtorArgs(val, min, max, frozen, alwaysfrozen) ==
    [val |-> val, min |-> min, max |-> max,
     hard_min |-> 0 - hugeval, hard_max |-> hugeval,
     frozen |-> frozen, alwaysfrozen |-> alwaysfrozen]

\* the i-th validated assignment of __init__
InitStep(i, H, self, a) ==
    CASE i = 1 -> _set_limit("_min", H, self, Number(a.min))
      [] i = 2 -> _set_limit("_max", H, self, Number(a.max))
      [] i = 3 -> _set_val(H, self, Number(a.val))
      [] i = 4 -> _set_limit("_default_min", H, self, Number(a.min))
      [] i = 5 -> _set_limit("_default_max", H, self, Number(a.max))
      [] i = 6 -> _set_default_val(H, self, Number(a.val))
      [] i = 7 -> _set_link(H, self, None)
      [] i = 8 -> Ok([H EXCEPT ![self]._guessed = FALSE, ![self].initialized = TRUE])

RECURSIVE InitFrom(_, _, _, _)
InitAfter(i, r, self, a) ==
    IF r.err # NoErr THEN r ELSE InitFrom(i + 1, r.h, self, a)

InitFrom(i, H, self, a) ==
    IF i > 8 THEN Ok(H) ELSE InitAfter(i, InitStep(i, H, self, a), self, a)

\* mutant: a constructor whose object counts as initialized from the start,
\* so that its limit assignments repair the value
__init___initialized(self, a) ==
    LET H0 == [p \in {self} |->
                 [Blank EXCEPT !._hard_min = a.hard_min,
                               !._hard_max = a.hard_max,
                               !._alwaysfrozen = a.alwaysfrozen,
                               !._frozen = IF a.alwaysfrozen THEN TRUE ELSE a.frozen,
                               !.initialized = TRUE]]
    IN  InitFrom(1, H0, self, a)

__init__(self, a) ==
    LET H0 == [p \in {self} |->
                 [Blank EXCEPT !._hard_min = a.hard_min,
                               !._hard_max = a.hard_max,
                               !._alwaysfrozen = a.alwaysfrozen,
                               !._frozen = IF a.alwaysfrozen THEN TRUE ELSE a.frozen]]
    IN  InitFrom(1, H0, self, a)

\* the objects a successful construction from arguments in A leaves
Returned(R) == { r \in R : r.err = NoErr }

Objects(p, A) == { r.h[p] : r \in Returned({ __init__(p, a) : a \in A }) }

\* the heaps whose parameter p is one of the objects O[p]
RECURSIVE HeapsOver(_, _)
HeapsOver(O, P) ==
    IF P = {} THEN { [q \in {} |-> Blank] }
    ELSE LET p == CHOOSE q \in P : TRUE
         IN  { [q \in P |-> IF q = p THEN o ELSE H[q]] :
                 o \in O[p], H \in HeapsOver(O, P \ {p}) }

Heaps(O) == HeapsOver(O, Params)

\* the heaps whose parameters were constructed from arguments in Args[p]
Constructed(Args) == Heaps([p \in Params |-> Objects(p, Args[p])])

DefaultArgs == { CtorArgs(0, 0 - hugeval, hugeval, FALSE, FALSE) }

(***************************************************************************)
(* The operations a caller performs.  `last` records the call that was     *)
(* made last: the operation, the parameter, the exception it raised and,   *)
(* for a read, the value returned.  A call that never returns leaves the   *)
(* program stuck.                                                          *)
(***************************************************************************)
Call(op, p, r) ==
    /\ last.err # Hang
    /\ par' = r.h
    /\ last' = [op |-> op, p |-> p, err |-> r.err, ret |-> 0]

SetVal(p, x) == Call("val", p, _set_val(par, p, x))

SetDefaultVal(p, x) == Call("default_val", p, _set_default_val(par, p, x))

SetMin(p, x) == Call("min", p, _set_limit("_min", par, p, x))

SetMax(p, x) == Call("max", p, _set_limit("_max", par, p, x))

SetDefaultMin(p, x) == Call("default_min", p, _set_limit("_default_min", par, p, x))

SetDefaultMax(p, x) == Call("default_max", p, _set_limit("_default_max", par, p, x))

SetFrozen(p, b) == Call("frozen", p, _set_frozen(par, p, b))

Freeze(p) == Call("freeze", p, freeze(par, p))

Thaw(p) == Call("thaw", p, thaw(par, p))

\* mutant: the alwaysfrozen test made for None as well
SetLink_nonefrozen(p, x) ==
    Call("link", p, IF par[p]._alwaysfrozen
                    THEN Raise(par, ParameterErr("frozennolink"))
                    ELSE _set_link(par, p, x))

SetLink(p, x) == Call("link", p, _set_link(par, p, x))

Unlink(p) == Call("unlink", p, unlink(par, p))

Reset(p) == Call("reset", p, reset(par, p))

Set(p, a) == Call("set", p, set(par, p, a))

\* mutant: a read that stores the value it read
GetVal_caching(p) ==
    /\ last.err # Hang
    /\ LET r == _get_val(par, p)
       IN  /\ par' = IF r.err = NoErr THEN [par EXCEPT ![p]._val = r.v] ELSE par
           /\ last' = [op |-> "get_val", p |-> p, err |-> r.err, ret |-> r.v]

\* the limits of p were set by a heuristic: the _guessed flag is raised
Guess(p) == Call("guess", p, Ok([par EXCEPT ![p]._guessed = TRUE]))

GetVal(p) ==
    /\ last.err # Hang
    /\ par' = par
    /\ LET r == _get_val(par, p)
       IN  last' = [op |-> "get_val", p |-> p, err |-> r.err, ret |-> r.v]

\* p = Parameter(...): the name p is bound to the new object when the
\* constructor returns, and keeps the earlier object when it raises
Bind(H, p, r) ==
    IF r.err = NoErr THEN Ok([H EXCEPT ![p] = r.h[p]]) ELSE Raise(H, r.err)

Construct(p, a) == Call("__init__", p, Bind(par, p, __init__(p, a)))

NoCall == [op |-> "__init__", p |-> "a", err |-> NoErr, ret |-> 0]

(***************************************************************************)
(* Spec: links and the frozen flag.  Three parameters constructed with     *)
(* default limits, c possibly alwaysfrozen; links are assigned through     *)
(* link and through val, to plain parameters and to the composites 2 * q + 3.  *)
(***************************************************************************)
LinkExprs ==
    UNION { { Par(q),
              func(rfunc(Par(q), Number(2), "*"), Number(3), "+") } : q \in Params }

LinkArgs ==
    [p \in Params |->
        IF p = "c" THEN { CtorArgs(0, 0 - hugeval, hugeval, FALSE, af) : af \in BOOLEAN }
        ELSE DefaultArgs]

Init ==
    /\ par \in Constructed(LinkArgs)
    /\ last = NoCall

Next ==
    \E p \in Params :
        \/ \E x \in LinkExprs \cup {None, Number(1)} : SetLink(p, x)
        \/ \E x \in LinkExprs : SetVal(p, x)
        \/ Unlink(p)
        \/ Freeze(p)
        \/ Thaw(p)
        \/ \E b \in BOOLEAN : SetFrozen(p, Bool(b))
        \/ \E b \in BOOLEAN : Set(p, [NoArgs EXCEPT !.frozen = Bool(b)])
        \/ GetVal(p)

Spec == Init /\ [][Next]_vars

(***************************************************************************)
(* SpecBounds: one parameter, never linked, constructed from any           *)
(* arguments the constructor accepts, then assigned val, min and max.      *)
(***************************************************************************)
BoundsArgs ==
    [p \in Params |->
        IF p = "a"
        THEN { CtorArgs(v, lo, hi, FALSE, FALSE) : v \in Numbers, lo \in Numbers, hi \in Numbers }
        ELSE DefaultArgs]

InitBounds ==
    /\ par \in Constructed(BoundsArgs)
    /\ last = NoCall

NextBounds ==
    \E n \in Numbers :
        \/ SetVal("a", Number(n))
        \/ SetMin("a", Number(n))
        \/ SetMax("a", Number(n))

SpecBounds == InitBounds /\ [][NextBounds]_vars

(***************************************************************************)
(* SpecEval: values read through links.  a and b are linked to each other  *)
(* directly or through 1 - q, a and b are assigned values, b's limits and  *)
(* default limits are changed, and val is read.                            *)
(***************************************************************************)
EvalPars == {"a", "b"}

EvalExprs == UNION { { Par(q), rfunc(Par(q), Number(1), "-") } : q \in EvalPars }

\* the hard limits, zero, and one beyond each hard limit
EvalNumbers == {0 - hugeval - 1, 0 - hugeval, 0, hugeval, hugeval + 1}

\* zero, and one beyond each hard limit
DefaultLimitNumbers == {0 - hugeval - 1, 0, hugeval + 1}

InitEval ==
    /\ par \in Constructed([p \in Params |-> DefaultArgs])
    /\ last = NoCall

NextEval ==
    \/ \E p \in EvalPars, x \in EvalExprs : SetLink(p, x)
    \/ \E p \in EvalPars : Unlink(p)
    \/ \E p \in EvalPars, n \in EvalNumbers : SetVal(p, Number(n))
    \/ \E n \in EvalNumbers : SetMin("b", Number(n))
    \/ \E n \in EvalNumbers : SetMax("b", Number(n))
    \/ \E n \in DefaultLimitNumbers : SetDefaultMin("b", Number(n))
    \/ \E n \in DefaultLimitNumbers : SetDefaultMax("b", Number(n))
    \/ \E p \in EvalPars : GetVal(p)

SpecEval == InitEval /\ [][NextEval]_vars

(***************************************************************************)
(* SpecScalar: one unlinked parameter, its value, default value and soft   *)
(* limits assigned one at a time, and reset.                               *)
(***************************************************************************)
InitScalar ==
    /\ par \in Constructed([p \in Params |-> DefaultArgs])
    /\ last = NoCall

NextScalar ==
    \/ \E n \in Numbers : SetVal("a", Number(n))
    \/ \E n \in Numbers : SetDefaultVal("a", Number(n))
    \/ \E n \in Numbers : SetMin("a", Number(n))
    \/ \E n \in Numbers : SetMax("a", Number(n))
    \/ Reset("a")

SpecScalar == InitScalar /\ [][NextScalar]_vars

(***************************************************************************)
(* SpecReset: a and b, unlinked, are assigned values and reset;            *)
(* default_val is assigned explicitly only values that are not positive.   *)
(***************************************************************************)
ExplicitDefaults == (0 - hugeval) .. 0

InitReset ==
    /\ par \in Constructed([p \in Params |-> DefaultArgs])
    /\ last = NoCall

NextReset ==
    \E p \in EvalPars :
        \/ \E n \in Numbers : SetVal(p, Number(n))
        \/ \E n \in ExplicitDefaults : SetDefaultVal(p, Number(n))
        \/ Reset(p)

SpecReset == InitReset /\ [][NextReset]_vars

(***************************************************************************)
(* SpecSet: one unlinked parameter, constructed from any arguments the     *)
(* constructor accepts and possibly alwaysfrozen, changed through set      *)
(* with any choice of val, min, max and frozen.                            *)
(***************************************************************************)
\* no argument, the hard limits, zero and one
NumberArgs == {None} \cup { Number(n) : n \in {0 - hugeval, 0, 1, hugeval} }

FrozenArgs == {None, Bool(FALSE), Bool(TRUE)}

SetArgs ==
    { [NoArgs EXCEPT !.val = v, !.min = lo, !.max = hi, !.frozen = f] :
        v \in NumberArgs, lo \in NumberArgs, hi \in NumberArgs, f \in FrozenArgs }

SetCtorArgs ==
    [p \in Params |->
        IF p = "a"
        THEN { CtorArgs(v, lo, hi, FALSE, af) :
                 v \in Numbers, lo \in Numbers, hi \in Numbers, af \in BOOLEAN }
        ELSE DefaultArgs]

InitSet ==
    /\ par \in Constructed(SetCtorArgs)
    /\ last = NoCall

NextSet == \E a \in SetArgs : Set("a", a)

SpecSet == InitSet /\ [][NextSet]_vars

(***************************************************************************)
(* SpecIter: iteration over composites.  The parameters are linked to the  *)
(* composites (q + r) / 2 and unlinked; the link setter iterates over the  *)
(* expression it is given.                                                 *)
(***************************************************************************)
HalfSum(q, r) == func(func(Par(q), Par(r), "+"), Number(2), "/")

IterExprs == { HalfSum(q, r) : q \in Params, r \in Params }

InitIter ==
    /\ par \in Constructed([p \in Params |-> DefaultArgs])
    /\ last = NoCall

NextIter ==
    \E p \in Params :
        \/ \E x \in IterExprs : SetLink(p, x)
        \/ Unlink(p)

SpecIter == InitIter /\ [][NextIter]_vars

(***************************************************************************)
(* SpecGuess: reset with and without the _guessed flag.  The parameter a   *)
(* has its limits and default limits changed, is frozen and thawed, linked *)
(* to b and unlinked, marked as guessed, and reset.                        *)
(***************************************************************************)
InitGuess ==
    /\ par \in Constructed([p \in Params |-> DefaultArgs])
    /\ last = NoCall

NextGuess ==
    \/ \E n \in Numbers : SetMin("a", Number(n))
    \/ \E n \in Numbers : SetMax("a", Number(n))
    \/ \E n \in DefaultLimitNumbers : SetDefaultMin("a", Number(n))
    \/ \E n \in DefaultLimitNumbers : SetDefaultMax("a", Number(n))
    \/ Freeze("a")
    \/ Thaw("a")
    \/ SetLink("a", Par("b"))
    \/ Unlink("a")
    \/ Guess("a")
    \/ Reset("a")

SpecGuess == InitGuess /\ [][NextGuess]_vars

(***************************************************************************)
(* SpecCtor: construction.  The parameter a is constructed again and again *)
(* from every value and pair of limits, within and beyond the hard limits, *)
(* alwaysfrozen or not.                                                    *)
(***************************************************************************)
InitCtor ==
    /\ par \in Constructed([p \in Params |-> DefaultArgs])
    /\ last = NoCall

NextCtor == \E a \in SetCtorArgs["a"] : Construct("a", a)

SpecCtor == InitCtor /\ [][NextCtor]_vars

(***************************************************************************)
(* The claims.                                                             *)
(***************************************************************************)
pa == par["a"]
pb == par["b"]

\* hard_min <= min <= val <= max <= hard_max, val as the property reads it
BoundInv(p) ==
    LET r == _get_val(par, p)
    IN  /\ r.err = NoErr
        /\ par[p]._hard_min <= par[p]._min
        /\ par[p]._min <= r.v
        /\ r.v <= par[p]._max
        /\ par[p]._max <= par[p]._hard_max

\* C1: a parameter that is never linked satisfies
\* hard_min <= min <= val <= max <= hard_max after construction and after
\* every assignment to val, min or max, in any sequence.
C1_BoundInvariant ==
    \A p \in Params : par[p]._link = None /\ BoundInv(p)

\* a min assignment has moved the value and both limits onto 1
C1_Witness ==
    /\ last.op = "min" /\ last.err = NoErr
    /\ pa._min = 1 /\ pa._val = 1 /\ pa._max = 1

\* the call just made was one of ops, on p
Calls(ops, p) == last'.op \in ops /\ last'.p = p

\* the parameters the link expression of p references
Refs(H, p) == { q \in Params : H[p]._link # None /\ In(q, H[p]._link) }

RECURSIVE Reach(_, _, _)
Reach(H, S, n) ==
    IF n = 0 THEN S
    ELSE Reach(H, S \cup UNION { Refs(H, q) : q \in S }, n - 1)

HasCycle(H) ==
    \E p \in Params : p \in Reach(H, Refs(H, p), Cardinality(Params))

\* C2: after any sequence of link assignments and unlink calls the link
\* graph (an edge from A to each parameter A's link expression references)
\* has no cycle through Parameter nodes.
C2_NoLinkCycle == ~HasCycle(par)

\* the values assigned whose iteration contains p: p itself and 2 * p + 3
SelfLinks(p) == { Par(p), func(rfunc(Par(p), Number(2), "*"), Number(3), "+") }

\* C3 as claimed: assigning to p.link a value whose iteration contains p
\* raises ParameterErr('linkcycle') and leaves p.link at its previous value,
\* for every parameter p.
C3_SelfLinkRaisesLinkcycle ==
    [][\A p \in Params : \A x \in SelfLinks(p) :
         (Calls({"link"}, p) /\ SetLink(p, x)) =>
            /\ last'.err = ParameterErr("linkcycle")
            /\ par'[p]._link = par[p]._link]_vars

\* C3 as amended: assigning to p.link a value whose iteration contains p,
\* on a parameter p that is not alwaysfrozen, raises
\* ParameterErr('linkcycle') and leaves p.link at its previous value.
C3_SelfLinkRejected ==
    [][\A p \in Params : \A x \in SelfLinks(p) :
         (Calls({"link"}, p) /\ ~par[p]._alwaysfrozen /\ SetLink(p, x)) =>
            /\ last'.err = ParameterErr("linkcycle")
            /\ par'[p]._link = par[p]._link]_vars

\* a link assignment was rejected as a cycle and the earlier link is kept
C3_Witness ==
    /\ last.op = "link" /\ last.err = ParameterErr("linkcycle")
    /\ par[last.p]._link = Par("b")

ParameterErrKinds == {"edge", "notlink", "frozennolink", "linkcycle", "alwaysfrozen"}

SingleFieldSetters ==
    {"val", "default_val", "min", "max", "default_min", "default_max", "frozen", "link"}

\* C4: when a single-field setter raises ParameterErr the whole state of
\* the parameter is unchanged, its link included.
C4_FailedSetterChangesNothing ==
    [][(last'.op \in SingleFieldSetters /\ last'.err.kind \in ParameterErrKinds)
          => par'[last'.p] = par[last'.p]]_vars

\* the limit setters of p called with the number n
SetsLimit(p, n) ==
    /\ Calls({"min", "max", "default_min", "default_max"}, p)
    /\ \/ SetMin(p, Number(n))
       \/ SetMax(p, Number(n))
       \/ SetDefaultMin(p, Number(n))
       \/ SetDefaultMax(p, Number(n))

\* C5: setting min, max, default_min or default_max below hard_min or above
\* hard_max raises ParameterErr('edge', ..., 'hard minimum' | 'hard maximum',
\* the hard limit) and leaves every attribute of the parameter unchanged.
C5_HardLimitRejected ==
    [][\A p \in Params : \A n \in Numbers :
         /\ (n < par[p]._hard_min /\ SetsLimit(p, n)) =>
               /\ last'.err = EdgeErr(p, "hard minimum", par[p]._hard_min)
               /\ par' = par
         /\ (n > par[p]._hard_max /\ SetsLimit(p, n)) =>
               /\ last'.err = EdgeErr(p, "hard maximum", par[p]._hard_max)
               /\ par' = par]_vars

\* default_max of the linked parameter b was refused at the hard maximum
C5_Witness ==
    /\ last.op = "default_max" /\ last.p = "b"
    /\ last.err = EdgeErr("b", "hard maximum", hugeval)
    /\ pb._link # None

\* C6: on an unlinked parameter, setting max to m with min <= m < val
\* succeeds and leaves max = m and val = m; setting min to m with
\* val < m <= max succeeds and leaves min = m and val = m.
C6_LimitMovesValue ==
    [][\A m \in Numbers :
         /\ (pa._link = None /\ pa._min <= m /\ m < pa._val /\ SetMax("a", Number(m))) =>
               (last'.err = NoErr /\ pa'._max = m /\ pa'._val = m)
         /\ (pa._link = None /\ pa._val < m /\ m <= pa._max /\ SetMin("a", Number(m))) =>
               (last'.err = NoErr /\ pa'._min = m /\ pa'._val = m)]_vars

\* C7: a successful read of val of a parameter linked to q, or to 1 - q,
\* with q unlinked, returns q's stored value, or 1 minus it, as it is at
\* the time of the read.
C7_LinkedReadIsCurrent ==
    (last.op = "get_val" /\ last.err = NoErr) =>
        \A q \in Params :
            par[q]._link = None =>
                /\ par[last.p]._link = Par(q) => last.ret = par[q]._val
                /\ par[last.p]._link = rfunc(Par(q), Number(1), "-")
                      => last.ret = 1 - par[q]._val

\* b, linked to 1 - a, was read after a was assigned hugeval
C7_Witness ==
    /\ last.op = "get_val" /\ last.p = "b" /\ last.err = NoErr
    /\ pb._link = rfunc(Par("a"), Number(1), "-")
    /\ pa._link = None /\ pa._val = hugeval
    /\ last.ret = 1 - hugeval

\* C8: assigning a leaf q a value within q's own limits succeeds whatever
\* is linked to q; a read of p.val, p linked to 1 - q, raises
\* ParameterErr('edge', p, 'minimum' | 'maximum', the limit) when 1 - q.val
\* is outside [p.min, p.max], and returns 1 - q.val otherwise.
C8_OutOfRangeLinkRaisesOnRead ==
    [][\A p \in EvalPars : \A q \in EvalPars :
         /\ \A n \in Numbers :
              (/\ Calls({"val"}, q)
               /\ par[q]._min <= n /\ n <= par[q]._max
               /\ SetVal(q, Number(n))) =>
                  (last'.err = NoErr /\ par'[q]._val = n)
         /\ (/\ last'.op = "get_val" /\ last'.p = p
             /\ par'[p]._link = rfunc(Par(q), Number(1), "-")
             /\ par'[q]._link = None) =>
               LET v == 1 - par'[q]._val
               IN  IF v < par'[p]._min
                   THEN last'.err = EdgeErr(p, "minimum", par'[p]._min)
                   ELSE IF v > par'[p]._max
                   THEN last'.err = EdgeErr(p, "maximum", par'[p]._max)
                   ELSE last'.err = NoErr /\ last'.ret = v]_vars

\* the read of b raised at its maximum: a holds -hugeval, b is 1 - a
C8_Witness ==
    /\ last.op = "get_val" /\ last.p = "b"
    /\ last.err = EdgeErr("b", "maximum", pb._max)
    /\ pb._link = rfunc(Par("a"), Number(1), "-")
    /\ pa._link = None /\ pa._val = 0 - hugeval

\* C9: a parameter whose link is not None reports frozen = True, whatever
\* freeze, thaw and frozen assignments were applied to it.
C9_LinkedIsFrozen ==
    \A p \in Params : par[p]._link # None => _get_frozen(par, p)

\* a linked parameter was thawed: its stored flag is False
C9_Witness ==
    /\ last.op = "thaw" /\ last.err = NoErr
    /\ par[last.p]._link # None /\ ~par[last.p]._frozen

\* C10: an alwaysfrozen parameter reports frozen = True and has no link in
\* every state; thaw(), frozen = False and set(frozen=False) raise
\* ParameterErr('alwaysfrozen'); assigning a parameter to link or to val, or
\* a number to link, raises ParameterErr('frozennolink').
C10_AlwaysFrozen ==
    [][\A p \in Params :
         par[p]._alwaysfrozen =>
            /\ _get_frozen(par, p) /\ _get_frozen(par', p)
            /\ par[p]._link = None /\ par'[p]._link = None
            /\ (\/ Thaw(p)
                \/ SetFrozen(p, Bool(FALSE))
                \/ Set(p, [NoArgs EXCEPT !.frozen = Bool(FALSE)]))
                  => last'.err = ParameterErr("alwaysfrozen")
            /\ \A x \in LinkExprs :
                  (SetLink(p, x) \/ SetVal(p, x))
                  => last'.err = ParameterErr("frozennolink")
            /\ SetLink(p, Number(1)) => last'.err = ParameterErr("frozennolink")]_vars

\* a parameter assigned to val of the alwaysfrozen c was refused
C10_Witness ==
    /\ last.op = "val" /\ last.p = "c"
    /\ last.err = ParameterErr("frozennolink")
    /\ par["c"]._alwaysfrozen /\ par["c"]._link = None


\* C11 as claimed: on a parameter that is not alwaysfrozen, in any state,
\* thaw() completes without error and afterwards frozen reads False.
C11_ThawReadsFalse ==
    [][\A p \in Params :
         (Calls({"thaw"}, p) /\ ~par[p]._alwaysfrozen /\ Thaw(p)) =>
            (last'.err = NoErr /\ ~_get_frozen(par', p))]_vars

\* C11 as amended: on a parameter that is not alwaysfrozen, thaw() completes
\* without error and stores False in the flag; afterwards frozen reads False
\* when the parameter is unlinked and True while it is linked.
C11_ThawStoresFalse ==
    [][\A p \in Params :
         (Calls({"thaw"}, p) /\ ~par[p]._alwaysfrozen /\ Thaw(p)) =>
            /\ last'.err = NoErr
            /\ ~par'[p]._frozen
            /\ par'[p]._link = par[p]._link
            /\ _get_frozen(par', p) <=> (par'[p]._link # None)]_vars

\* thaw() has just returned on an unlinked parameter, which reads not frozen
C11_Witness ==
    /\ last.op = "thaw" /\ last.err = NoErr
    /\ par[last.p]._link = None /\ ~_get_frozen(par, last.p)


\* the operations that assign the frozen flag
FrozenOps == {"frozen", "freeze", "thaw", "set"}

\* C12: linking then unlinking restores the frozen state.  No operation
\* other than freeze, thaw, a frozen assignment or set changes the stored
\* flag of any parameter; a successful assignment of a link leaves frozen
\* reading True; and after unlink() frozen reads the stored flag, which is
\* the value frozen read before the parameter was linked.
C12_UnlinkRestoresFrozen ==
    [][\A p \in Params :
         /\ last'.op \notin FrozenOps => par'[p]._frozen = par[p]._frozen
         /\ par[p]._link = None => _get_frozen(par, p) = par[p]._frozen
         /\ \A x \in LinkExprs :
              (Calls({"link"}, p) /\ SetLink(p, x) /\ last'.err = NoErr)
                 => _get_frozen(par', p)
         /\ (Calls({"unlink"}, p) /\ Unlink(p)) =>
               /\ last'.err = NoErr
               /\ par'[p]._link = None
               /\ _get_frozen(par', p) = par[p]._frozen]_vars

\* unlink() has just returned on a parameter whose stored flag is True
C12_Witness ==
    /\ last.op = "unlink" /\ last.err = NoErr
    /\ par[last.p]._frozen /\ _get_frozen(par, last.p)
    /\ ~par[last.p]._alwaysfrozen


\* C13 as claimed: after p.val = v followed by p.reset(), p.val is the
\* default value in force before the assignment, not v, unless default_val
\* was itself explicitly set to v.  Where parameters are constructed with the
\* value 0 and default_val is explicitly assigned only values that are not
\* positive, val is therefore never positive after reset().
C13_ResetRestoresEarlierDefault ==
    \A p \in EvalPars :
        (last.op = "reset" /\ last.p = p) => par[p]._val \notin 1 .. hugeval

\* C13 as amended: a successful numeric assignment p.val = v stores v as
\* the value and as the default value; reset() on an unlinked parameter
\* returns without error and stores the current default value as the
\* value; so after p.val = v followed by p.reset(), p.val is v.
C13_ResetKeepsAssignedValue ==
    [][\A p \in EvalPars :
         /\ \A n \in Numbers :
              (Calls({"val"}, p) /\ SetVal(p, Number(n)) /\ last'.err = NoErr) =>
                  (par'[p]._val = n /\ par'[p]._default_val = n)
         /\ (Calls({"reset"}, p) /\ par[p]._link = None /\ Reset(p)) =>
               /\ last'.err = NoErr
               /\ par'[p]._val = par[p]._default_val
               /\ (last.op = "val" /\ last.p = p /\ last.err = NoErr)
                     => par'[p]._val = par[p]._val]_vars

\* reset() has just returned and val is positive: only p.val = v stored it
C13_Witness ==
    /\ last.op = "reset" /\ last.err = NoErr
    /\ par[last.p]._val = hugeval /\ par[last.p]._default_val = hugeval


\* C14: every unlinked parameter satisfies
\* hard_min <= default_min <= default_val <= default_max <= hard_max
\* in every reachable state.
C14_DefaultBoundInvariant ==
    \A p \in Params :
        par[p]._link = None =>
            /\ par[p]._hard_min <= par[p]._default_min
            /\ par[p]._default_min <= par[p]._default_val
            /\ par[p]._default_val <= par[p]._default_max
            /\ par[p]._default_max <= par[p]._hard_max


\* set(val=v, min=lo, max=hi)
ValMinMax(v, lo, hi) ==
    [NoArgs EXCEPT !.val = Number(v), !.min = Number(lo), !.max = Number(hi)]

\* C15: in every reachable state in which the parameter is unlinked with
\* min <= val <= max, for any lo, v, hi with
\* hard_min <= lo <= v <= hi <= hard_max, set(val=v, min=lo, max=hi)
\* completes without error and leaves val = v, min = lo and max = hi,
\* wherever v lies with respect to the limits before the call.
C15_SetWidensFirst ==
    (pa._link = None /\ pa._min <= pa._val /\ pa._val <= pa._max) =>
        \A v \in Numbers : \A lo \in Numbers : \A hi \in Numbers :
            (pa._hard_min <= lo /\ lo <= v /\ v <= hi /\ hi <= pa._hard_max) =>
                LET r == set(par, "a", ValMinMax(v, lo, hi))
                IN  /\ r.err = NoErr
                    /\ r.h["a"]._val = v
                    /\ r.h["a"]._min = lo
                    /\ r.h["a"]._max = hi

\* set has just returned with the value and both limits on hard_max
C15_Witness ==
    /\ last.op = "set" /\ last.err = NoErr
    /\ pa._val = pa._hard_max /\ pa._min = pa._hard_max /\ pa._max = pa._hard_max
    /\ pa._default_min < pa._hard_max


C17_ReadTerminates ==
    \A p \in Params :
        LET r == _get_val(par, p)
        IN  r.err = NoErr \/ r.err.kind \in ParameterErrKinds


\* C18 as claimed: iterating c = (q + r) / 2 yields c itself, the
\* BinaryOpParameter of the '/', first.
C18_IterationStartsWithSelf ==
    \A p \in Params :
        par[p]._link \in IterExprs => iter(par[p]._link)[1] = par[p]._link

\* C18 as amended: iterating c = (q + r) / 2 yields, in order, the
\* BinaryOpParameter of the '+', then q, then r, then ConstantParameter(2);
\* c itself is not yielded.
C18_IterationYieldsParts ==
    \A p \in Params : \A q \in Params : \A r \in Params :
        par[p]._link = HalfSum(q, r) =>
            LET c == par[p]._link
            IN  /\ iter(c) = << BinaryOpParameter(Par(q), Par(r), "+"),
                                Par(q), Par(r), ConstantParameter(Number(2)) >>
                /\ \A i \in 1 .. Len(iter(c)) : iter(c)[i] # c

\* c has just been linked to (a + b) / 2
C18_Witness ==
    /\ last.op = "link" /\ last.p = "c" /\ last.err = NoErr
    /\ par["c"]._link = HalfSum("a", "b")


\* the value of the expression x in the current state
Eval(x) == ValAt(par, x, RecursionLimit)

\* C19: for a parameter p and a number n, n - p is the BinaryOpParameter
\* with lhs = Constant(n) and rhs = p, and evaluates to n - p.val; p - n
\* evaluates to p.val - n; 3 - p evaluates to what (-p) + 3 evaluates to.
\* When reading p.val raises, each of the expressions raises the same.
C19_OperandOrder ==
    \A p \in EvalPars : \A n \in Numbers :
        LET r == _get_val(par, p)
            nmp == rfunc(Par(p), Number(n), "-")
            pmn == func(Par(p), Number(n), "-")
            neg3 == func(UnaryOpParameter(Par(p), "-"), Number(3), "+")
        IN  /\ nmp.k = "bin" /\ nmp.lhs = ConstantParameter(Number(n)) /\ nmp.rhs = Par(p)
            /\ pmn.k = "bin" /\ pmn.lhs = Par(p) /\ pmn.rhs = ConstantParameter(Number(n))
            /\ Eval(rfunc(Par(p), Number(3), "-")) = Eval(neg3)
            /\ IF r.err = NoErr
               THEN /\ Eval(nmp) = Ret(n - r.v)
                    /\ Eval(pmn) = Ret(r.v - n)
               ELSE /\ Eval(nmp).err = r.err
                    /\ Eval(pmn).err = r.err

\* a, linked to 1 - b, has just been read as 1 - hugeval: b holds hugeval
C19_Witness ==
    /\ last.op = "get_val" /\ last.p = "a" /\ last.err = NoErr
    /\ pa._link.k = "bin"
    /\ pa._link.lhs = ConstantParameter(Number(1)) /\ pa._link.rhs = Par("b")
    /\ pb._link = None /\ pb._val = hugeval
    /\ last.ret = 1 - hugeval


\* C20 as claimed: with A.link = B and B.link = C, the assignment
\* C.link = A completes without error, sets A.link to None, stores
\* C.link = A and leaves B.link = C.
C20_ChainClosingRepairs ==
    [][\A A \in Params : \A B \in Params \ {A} : \A C \in Params \ {A, B} :
         (/\ Calls({"link"}, C)
          /\ par[A]._link = Par(B) /\ par[B]._link = Par(C)
          /\ SetLink(C, Par(A))) =>
            /\ last'.err = NoErr
            /\ par'[A]._link = None
            /\ par'[C]._link = Par(A)
            /\ par'[B]._link = Par(C)]_vars

\* C20 as amended: with A.link = B and B.link = C, and C not alwaysfrozen,
\* the assignment C.link = A completes without error, sets A.link to None,
\* stores C.link = A and leaves B.link = C; on an alwaysfrozen C it raises
\* ParameterErr('frozennolink') and changes nothing.
C20_ChainClosingRepairsUnlessFrozen ==
    [][\A A \in Params : \A B \in Params \ {A} : \A C \in Params \ {A, B} :
         (/\ Calls({"link"}, C)
          /\ par[A]._link = Par(B) /\ par[B]._link = Par(C)
          /\ SetLink(C, Par(A))) =>
            IF par[C]._alwaysfrozen
            THEN last'.err = ParameterErr("frozennolink") /\ par' = par
            ELSE /\ last'.err = NoErr
                 /\ par'[A]._link = None
                 /\ par'[C]._link = Par(A)
                 /\ par'[B]._link = Par(C)]_vars

\* c has just been linked to a, b is linked to c and a is unlinked
C20_Witness ==
    /\ last.op = "link" /\ last.p = "c" /\ last.err = NoErr
    /\ par["c"]._link = Par("a") /\ par["b"]._link = Par("c")
    /\ par["a"]._link = None


\* C21: a successful numeric assignment p.val = v, min <= v <= max, leaves
\* p unlinked and stores v as the value and as the default value; a
\* reset() that follows returns without error and leaves val = v.
C21_ValAssignmentStoresDefault ==
    [][\A p \in EvalPars : \A n \in Numbers :
         (/\ Calls({"val"}, p)
          /\ par[p]._min <= n /\ n <= par[p]._max
          /\ SetVal(p, Number(n))) =>
            /\ last'.err = NoErr
            /\ par'[p]._link = None
            /\ par'[p]._val = n /\ par'[p]._default_val = n
            /\ _get_default_val(par', p) = Ret(n)
            /\ reset(par', p).err = NoErr
            /\ reset(par', p).h[p]._val = n]_vars

\* a has just been assigned -hugeval, which is its value and its default
C21_Witness ==
    /\ last.op = "val" /\ last.p = "a" /\ last.err = NoErr
    /\ pa._link = None
    /\ pa._val = 0 - hugeval /\ pa._default_val = 0 - hugeval


\* C22: assigning a parameter or a composite x to p.val has exactly the
\* effect of p.link = x: it raises what the link setter raises and leaves
\* every parameter as the link setter leaves it; every attribute of p other
\* than its link is unchanged.
C22_ValOfParameterIsLink ==
    [][\A p \in Params : \A x \in LinkExprs :
         (Calls({"val"}, p) /\ SetVal(p, x)) =>
            /\ last'.err = _set_link(par, p, x).err
            /\ par' = _set_link(par, p, x).h
            /\ [par'[p] EXCEPT !._link = None] = [par[p] EXCEPT !._link = None]]_vars

\* the parameter b has just been assigned to a.val: a is linked to b
C22_Witness ==
    /\ last.op = "val" /\ last.p = "a" /\ last.err = NoErr
    /\ pa._link = Par("b")


C24_LinkNoneAndNotlink ==
    [][\A p \in Params :
         /\ (Calls({"link"}, p) /\ SetLink(p, None)) =>
               /\ last'.err = NoErr
               /\ par' = [par EXCEPT ![p]._link = None]
         /\ (Calls({"link"}, p) /\ ~par[p]._alwaysfrozen /\ SetLink(p, Number(1))) =>
               /\ last'.err = ParameterErr("notlink")
               /\ par' = par]_vars

\* a link assignment has just returned without error on the alwaysfrozen c
C24_Witness ==
    /\ last.op = "link" /\ last.p = "c" /\ last.err = NoErr
    /\ par["c"]._alwaysfrozen /\ par["c"]._link = None


\* C25: iterating the composite c = (q + r) / 2 yields its descendants in
\* pre-order: each direct part followed at once by that part's own
\* flattened parts, four elements in all, none of them c.  Duplicates are
\* kept: the '+' part yields [q, r], which is [q, q] when r is q.  The
\* links of the leaves q and r are not followed: the result is the same
\* whether or not q and r are linked.
C25_IterationPreOrderKeepsDuplicates ==
    \A p \in Params : \A q \in Params : \A r \in Params :
        par[p]._link = HalfSum(q, r) =>
            LET c == par[p]._link
                s == iter(c)
            IN  /\ Len(s) = 4
                /\ s[1] = c.lhs /\ s[4] = c.rhs
                /\ SubSeq(s, 2, 3) = iter(c.lhs)
                /\ iter(c.lhs) = << Par(q), Par(r) >>
                /\ \A i \in 1 .. 4 : s[i] # c
                /\ \A i \in 2 .. 3 : s[i].k = "par"

\* c has just been linked to (a + a) / 2 while a is itself linked
C25_Witness ==
    /\ last.op = "link" /\ last.p = "c" /\ last.err = NoErr
    /\ par["c"]._link = HalfSum("a", "a")
    /\ par["a"]._link # None


\* C26: assigning default_min or default_max of b a number within
\* [hard_min, hard_max] succeeds in every state, linked or not, and changes
\* that one field only: val, default_val, min, max and link stay as they
\* were, also when the new default limit excludes the current value.
C26_DefaultLimitChangesOneField ==
    [][\A n \in DefaultLimitNumbers :
         (par["b"]._hard_min <= n /\ n <= par["b"]._hard_max) =>
            /\ (Calls({"default_min"}, "b") /\ SetDefaultMin("b", Number(n))) =>
                  /\ last'.err = NoErr
                  /\ par' = [par EXCEPT !["b"]._default_min = n]
            /\ (Calls({"default_max"}, "b") /\ SetDefaultMax("b", Number(n))) =>
                  /\ last'.err = NoErr
                  /\ par' = [par EXCEPT !["b"]._default_max = n]]_vars

\* default_min of b has just been raised above the stored value of b
C26_Witness ==
    /\ last.op = "default_min" /\ last.p = "b" /\ last.err = NoErr
    /\ par["b"]._link = None
    /\ par["b"]._val < par["b"]._default_min


\* C27: set applies the frozen argument after the value and limit
\* arguments.  In every reachable state in which a is alwaysfrozen, for any
\* lo, v, hi with hard_min <= lo <= v <= hi <= hard_max,
\* set(val=v, min=lo, max=hi, frozen=False) raises
\* ParameterErr('alwaysfrozen') and leaves val = v, min = lo and max = hi.
C27_SetAppliesFrozenLast ==
    (pa._alwaysfrozen /\ pa._link = None) =>
        \A v \in Numbers : \A lo \in Numbers : \A hi \in Numbers :
            (pa._hard_min <= lo /\ lo <= v /\ v <= hi /\ hi <= pa._hard_max) =>
                LET r == set(par, "a", [ValMinMax(v, lo, hi) EXCEPT !.frozen = Bool(FALSE)])
                IN  /\ r.err = ParameterErr("alwaysfrozen")
                    /\ r.h["a"]._val = v
                    /\ r.h["a"]._min = lo
                    /\ r.h["a"]._max = hi
                    /\ r.h["a"]._frozen = pa._frozen

\* set has just raised alwaysfrozen with the value and both limits on 1
C27_Witness ==
    /\ last.op = "set" /\ last.err = ParameterErr("alwaysfrozen")
    /\ pa._alwaysfrozen
    /\ pa._val = 1 /\ pa._min = 1 /\ pa._max = 1


\* C28: on an unlinked parameter with min <= val <= max, reset() leaves
\* min <= val <= max.
C28_ResetKeepsValueWithinLimits ==
    [][(/\ Calls({"reset"}, "a") /\ Reset("a")
        /\ pa._link = None /\ pa._min <= pa._val /\ pa._val <= pa._max) =>
           (pa'._min <= pa'._val /\ pa'._val <= pa'._max)]_vars


\* C29: after unlink() of a linked parameter, a read of val returns the
\* stored value and min <= val <= max, whatever min and max were assigned
\* while the parameter was linked.
C29_UnlinkedValueWithinLimits ==
    [][\A p \in EvalPars :
         (Calls({"unlink"}, p) /\ Unlink(p) /\ par[p]._link # None) =>
            LET r == _get_val(par', p)
            IN  /\ r.err = NoErr
                /\ r.v = par'[p]._val
                /\ par'[p]._min <= r.v /\ r.v <= par'[p]._max]_vars


\* C30: a successful assignment of min or max to a linked parameter leaves
\* its link as it was, also when the new limit excludes the current value
\* of the link.
C30_LimitKeepsLink ==
    [][\A n \in EvalNumbers :
         (/\ Calls({"min", "max"}, "b")
          /\ SetMin("b", Number(n)) \/ SetMax("b", Number(n))
          /\ pb._link # None /\ last'.err = NoErr) =>
            pb'._link = pb._link]_vars


\* C31: a call set(val=v, min=lo, max=hi) on an unlinked parameter that
\* returns without raising leaves val = v, and when v lies outside
\* [lo, hi] the call raises ParameterErr.
C31_SetNeverClamps ==
    pa._link = None =>
        \A v \in Numbers : \A lo \in Numbers : \A hi \in Numbers :
            LET r == set(par, "a", ValMinMax(v, lo, hi))
            IN  /\ r.err = NoErr => r.h["a"]._val = v
                /\ (v < lo \/ v > hi) => r.err.kind \in ParameterErrKinds


\* the arguments Parameter(..., val, min, max) must refuse
BadCtorArgs(a) ==
    \/ a.val < a.min \/ a.val > a.max \/ a.min > a.max
    \/ a.min < a.hard_min \/ a.min > a.hard_max
    \/ a.max < a.hard_min \/ a.max > a.hard_max

\* C32: construction never repairs.  Parameter(..., val, min, max) raises
\* ParameterErr('edge') when val lies outside [min, max], when min > max,
\* or when min or max lies outside [hard_min, hard_max]; otherwise it
\* returns a parameter that is unlinked, with val, min and max as given,
\* default_val = val, default_min = min and default_max = max.  The
\* parameter a construction has just returned satisfies
\* hard_min <= min <= val <= max <= hard_max.
C32_ConstructionNeverRepairs ==
    /\ \A a \in SetCtorArgs["a"] :
          LET r == __init__("a", a)
          IN  IF BadCtorArgs(a)
              THEN r.err.kind = "edge"
              ELSE /\ r.err = NoErr
                   /\ r.h["a"]._link = None
                   /\ r.h["a"]._val = a.val
                   /\ r.h["a"]._min = a.min
                   /\ r.h["a"]._max = a.max
                   /\ r.h["a"]._default_val = a.val
                   /\ r.h["a"]._default_min = a.min
                   /\ r.h["a"]._default_max = a.max
    /\ (last.op = "__init__" /\ last.err = NoErr) =>
          /\ pa._link = None
          /\ pa._default_val = pa._val
          /\ pa._default_min = pa._min
          /\ pa._default_max = pa._max
          /\ pa._hard_min <= pa._min /\ pa._min <= pa._val
          /\ pa._val <= pa._max /\ pa._max <= pa._hard_max

\* a construction with val below min has just been refused, and a keeps
\* the object of an earlier construction with other limits
C32_Witness ==
    /\ last.op = "__init__" /\ last.err.kind = "edge"
    /\ last.err.what = "minimum" /\ last.err.bound = 1
    /\ pa._min = 0 /\ pa._val = 1 /\ pa._max = hugeval


\* the parameters on the chain of direct link pointers that starts at x,
\* n of them at most
RECURSIVE DirectChain(_, _, _)
DirectChain(H, x, n) ==
    IF n = 0 \/ x.k # "par" THEN {}
    ELSE {x.p} \cup DirectChain(H, H[x.p]._link, n - 1)

\* C33: in every reachable state the graph of direct link pointers is
\* acyclic, so the chain walk of the link setter, started for any
\* parameter and any link expression, reaches None within as many steps as
\* there are parameters, and no link assignment fails to return.
C33_LinkWalkTerminates ==
    /\ last.err # Hang
    /\ \A p \in Params :
          p \notin DirectChain(par, par[p]._link, Cardinality(Params))
    /\ \A p \in Params : \A x \in LinkExprs :
          ~LinkWalk(par, p, x, Cardinality(Params) + 1).hang

\* c has just been linked to a, with b linked to c: a chain of two pointers
C33_Witness ==
    /\ last.op = "link" /\ last.p = "c" /\ last.err = NoErr
    /\ par["c"]._link = Par("a")
    /\ par["b"]._link = Par("c")
    /\ par["a"]._link = None

=============================================================================
